---- MODULE Spec2Model ----
(***************************************************************************)
(* html-to-pdf-server: request validation (schema.ts), the HTTP handlers   *)
(* and render orchestration (index.ts), the adaptive image fitter          *)
(* compressImage, and the shared browser handle (browser.ts).              *)
(*                                                                         *)
(* Units: scale is held in hundredths (1 is 100, 0.1 is 10, 2 is 200);     *)
(* sizes are bytes; a fitter scale factor is held in tenths plus the       *)
(* IEEE-754 excess the repeated subtraction accumulates.                   *)
(***************************************************************************)
EXTENDS Integers, Sequences, FiniteSets, TLC

VARIABLES
  apiKey,    \* process.env.API_KEY ("" when not configured)
  browser,   \* browser.ts: let browser: Browser | null
  runPc,     \* position of run() at startup
  env,       \* what the clients and the browser may produce in this run
  reqs,      \* one record per request slot: the request's handler state
  pages,     \* pages opened on the shared browser: page id -> page state
  val,       \* validator under test: schema, body, result
  fit,       \* fitter under test: one compressImage invocation
  launch     \* browser.ts under test: the launchBrowser calls in progress

vars == <<apiKey, browser, runPc, env, reqs, pages, val, fit, launch>>

(***************************************************************************)
(* JSON values of a request body.  A scalar is [t, s, n]: t is the JSON    *)
(* type ("absent" for a missing key), s the string, n the number (a        *)
(* boolean is n = 1 or 0).                                                 *)
(***************************************************************************)
JAbsent == [t |-> "absent", s |-> "", n |-> 0]
JStr(x) == [t |-> "str", s |-> x, n |-> 0]
JNum(k) == [t |-> "num", s |-> "", n |-> k]
JBool(b) == [t |-> "bool", s |-> "", n |-> IF b THEN 1 ELSE 0]

JMargin(a, b, c, d) == [t |-> "obj", top |-> a, right |-> b, bottom |-> c, left |-> d]
NoMargin == [t |-> "absent", top |-> JAbsent, right |-> JAbsent, bottom |-> JAbsent, left |-> JAbsent]
JViewport(w, h) == [t |-> "obj", width |-> w, height |-> h]
NoViewport == [t |-> "absent", width |-> JAbsent, height |-> JAbsent]
JClip(a, b, w, h) == [t |-> "obj", x |-> a, y |-> b, width |-> w, height |-> h]
NoClip == [t |-> "absent", x |-> JAbsent, y |-> JAbsent, width |-> JAbsent, height |-> JAbsent]

\* An export object with every key missing; EXCEPT fills keys in.
EmptyExport ==
  [t |-> "obj", scale |-> JAbsent, type |-> JAbsent, quality |-> JAbsent,
   fullPage |-> JAbsent, clip |-> NoClip, omitBackground |-> JAbsent,
   encoding |-> JAbsent, margin |-> NoMargin, printBackground |-> JAbsent,
   maxFileSize |-> JAbsent, viewport |-> NoViewport]
NoExport == [EmptyExport EXCEPT !.t = "absent"]

(***************************************************************************)
(* zod: the result of parsing one value is its status (valid, dirty: a     *)
(* check failed and parsing went on, aborted: the type was wrong), the     *)
(* output value and the issues raised.                                     *)
(***************************************************************************)
Valid(v) == [st |-> "valid", val |-> v, issues |-> {}]
Dirty(v, msg) == [st |-> "dirty", val |-> v, issues |-> {msg}]
Aborted(v, msg) == [st |-> "aborted", val |-> v, issues |-> {msg}]

MergeStatus(S) ==
  IF "aborted" \in S THEN "aborted" ELSE IF "dirty" \in S THEN "dirty" ELSE "valid"

\* .default(d): a missing input is replaced by d before the inner schema parses it
WithDefault(x, d) == IF x.t = "absent" THEN d ELSE x

\* a bounded number that clamps instead of rejecting
ZNumberMinMaxClamped(x, lo, hi, path) ==
  IF x.t # "num" THEN Aborted(JAbsent, path)
  ELSE IF x.n < lo THEN Valid(JNum(lo))
  ELSE IF x.n > hi THEN Valid(JNum(hi))
  ELSE Valid(x)

\* z.number().min(lo).max(hi)
ZNumberMinMax(x, lo, hi, path) ==
  IF x.t # "num" THEN Aborted(JAbsent, path)
  ELSE IF x.n < lo THEN Dirty(x, path)
  ELSE IF x.n > hi THEN Dirty(x, path)
  ELSE Valid(x)

\* z.number().positive()
ZNumberPositive(x, path) ==
  IF x.t # "num" THEN Aborted(JAbsent, path)
  ELSE IF x.n <= 0 THEN Dirty(x, path)
  ELSE Valid(x)

\* z.number()
ZNumber(x, path) == IF x.t # "num" THEN Aborted(JAbsent, path) ELSE Valid(x)

\* z.string()
ZString(x, path) == IF x.t # "str" THEN Aborted(JAbsent, path) ELSE Valid(x)

\* z.enum([...])
ZEnum(x, allowed, path) ==
  IF x.t = "str" /\ x.s \in allowed THEN Valid(x) ELSE Aborted(JAbsent, path)

\* z.boolean()
ZBoolean(x, path) == IF x.t # "bool" THEN Aborted(JAbsent, path) ELSE Valid(x)

(***************************************************************************)
(* schema.ts: the option bounds and defaults.                              *)
(***************************************************************************)
ScaleMin == 10
ScaleMax == 200
ScaleDefault == 100
QualityMin == 0
QualityMax == 100
QualityDefault == 100
MaxFileSizeDefault == 4194304
ViewportWidthDefault == 1280
ViewportHeightDefault == 720
ImageTypes == {"jpeg", "png", "webp"}
Encodings == {"base64", "binary"}
MissingTargetMessage == "Either url or html must be provided"

\* new URL(value) succeeds: the well-formed absolute URLs among the strings used
AbsoluteUrls == {"https://a.example", "https://b.example"}

\* urlCustom: returns the value, or throws Error('Invalid URL')
urlCustom(value) ==
  IF value \in AbsoluteUrls
    THEN [throws |-> FALSE, ret |-> value, message |-> ""]
    ELSE [throws |-> TRUE, ret |-> "", message |-> "Invalid URL"]

\* htmlCustom: returns the value, or throws Error('HTML content is required')
htmlCustom(value) ==
  IF value = ""
    THEN [throws |-> TRUE, ret |-> "", message |-> "HTML content is required"]
    ELSE [throws |-> FALSE, ret |-> value, message |-> ""]

\* export.margin: z.object({top, right, bottom, left: z.string()}), required
ZMargin(m) ==
  IF m.t # "obj" THEN Aborted(NoMargin, "export.margin")
  ELSE LET a == ZString(m.top, "export.margin.top")
           b == ZString(m.right, "export.margin.right")
           c == ZString(m.bottom, "export.margin.bottom")
           d == ZString(m.left, "export.margin.left")
       IN [st |-> MergeStatus({a.st, b.st, c.st, d.st}),
           val |-> JMargin(a.val, b.val, c.val, d.val),
           issues |-> a.issues \cup b.issues \cup c.issues \cup d.issues]

\* export.clip: z.object({x, y, width, height: z.number()}).optional()
ZClip(cl) ==
  IF cl.t = "absent" THEN Valid(NoClip)
  ELSE IF cl.t # "obj" THEN Aborted(NoClip, "export.clip")
  ELSE LET a == ZNumber(cl.x, "export.clip.x")
           b == ZNumber(cl.y, "export.clip.y")
           c == ZNumber(cl.width, "export.clip.width")
           d == ZNumber(cl.height, "export.clip.height")
       IN [st |-> MergeStatus({a.st, b.st, c.st, d.st}),
           val |-> JClip(a.val, b.val, c.val, d.val),
           issues |-> a.issues \cup b.issues \cup c.issues \cup d.issues]

\* export.viewport: z.object({width, height: positive, defaulted}).optional()
ZViewport(v) ==
  IF v.t = "absent" THEN Valid(NoViewport)
  ELSE IF v.t # "obj" THEN Aborted(NoViewport, "export.viewport")
  ELSE LET w == ZNumberPositive(WithDefault(v.width, JNum(ViewportWidthDefault)),
                                "export.viewport.width")
           h == ZNumberPositive(WithDefault(v.height, JNum(ViewportHeightDefault)),
                                "export.viewport.height")
       IN [st |-> MergeStatus({w.st, h.st}),
           val |-> JViewport(w.val, h.val),
           issues |-> w.issues \cup h.issues]

\* PdfRequestSchema.export's .default({...})
PdfExportDefault ==
  [EmptyExport EXCEPT !.scale = JNum(100), !.type = JStr("png"),
     !.quality = JNum(100), !.fullPage = JBool(TRUE),
     !.omitBackground = JBool(FALSE), !.encoding = JStr("binary"),
     !.margin = JMargin(JStr("0"), JStr("0"), JStr("0"), JStr("0")),
     !.printBackground = JBool(FALSE)]

\* ImageRequestSchema.export's .default({...})
ImageExportDefault ==
  [EmptyExport EXCEPT !.scale = JNum(100), !.type = JStr("png"),
     !.quality = JNum(100), !.fullPage = JBool(TRUE),
     !.omitBackground = JBool(FALSE), !.encoding = JStr("binary"),
     !.maxFileSize = JNum(4194304)]

\* the fields the PDF and the image export schema share
ExportCommon(x) ==
  [scale |-> ZNumberMinMax(WithDefault(x.scale, JNum(ScaleDefault)),
                           ScaleMin, ScaleMax, "export.scale"),
   type |-> ZEnum(WithDefault(x.type, JStr("png")), ImageTypes, "export.type"),
   quality |-> ZNumberMinMax(WithDefault(x.quality, JNum(QualityDefault)),
                             QualityMin, QualityMax, "export.quality"),
   fullPage |-> ZBoolean(WithDefault(x.fullPage, JBool(TRUE)), "export.fullPage"),
   clip |-> ZClip(x.clip),
   omitBackground |-> ZBoolean(WithDefault(x.omitBackground, JBool(FALSE)),
                               "export.omitBackground"),
   encoding |-> ZEnum(WithDefault(x.encoding, JStr("binary")), Encodings,
                      "export.encoding"),
   viewport |-> ZViewport(x.viewport)]

CommonKeys ==
  {"scale", "type", "quality", "fullPage", "clip", "omitBackground", "encoding",
   "viewport"}

\* PdfRequestSchema.export
PdfExportSchema(e) ==
  LET x == WithDefault(e, PdfExportDefault) IN
  IF x.t # "obj" THEN Aborted(NoExport, "export")
  ELSE LET c == ExportCommon(x)
           m == ZMargin(x.margin)
           p == ZBoolean(WithDefault(x.printBackground, JBool(FALSE)),
                         "export.printBackground")
       IN [st |-> MergeStatus({c[k].st : k \in CommonKeys} \cup {m.st, p.st}),
           val |-> [t |-> "obj", scale |-> c.scale.val, type |-> c.type.val,
                    quality |-> c.quality.val, fullPage |-> c.fullPage.val,
                    clip |-> c.clip.val, omitBackground |-> c.omitBackground.val,
                    encoding |-> c.encoding.val, margin |-> m.val,
                    printBackground |-> p.val, viewport |-> c.viewport.val],
           issues |-> UNION {c[k].issues : k \in CommonKeys}
                        \cup m.issues \cup p.issues]

\* ImageRequestSchema.export
ImageExportSchema(e) ==
  LET x == WithDefault(e, ImageExportDefault) IN
  IF x.t # "obj" THEN Aborted(NoExport, "export")
  ELSE LET c == ExportCommon(x)
           f == ZNumberPositive(WithDefault(x.maxFileSize, JNum(MaxFileSizeDefault)),
                                "export.maxFileSize")
       IN [st |-> MergeStatus({c[k].st : k \in CommonKeys} \cup {f.st}),
           val |-> [t |-> "obj", scale |-> c.scale.val, type |-> c.type.val,
                    quality |-> c.quality.val, fullPage |-> c.fullPage.val,
                    clip |-> c.clip.val, omitBackground |-> c.omitBackground.val,
                    encoding |-> c.encoding.val, maxFileSize |-> f.val,
                    viewport |-> c.viewport.val],
           issues |-> UNION {c[k].issues : k \in CommonKeys} \cup f.issues]

\* url / html: z.string().refine(custom).optional().  A refinement that throws
\* is not caught by zod: the exception leaves the parse.
ZTarget(x, throwsOn, path) ==
  IF x.t = "absent" THEN [st |-> "valid", val |-> JAbsent, issues |-> {}, throws |-> FALSE]
  ELSE IF x.t # "str"
    THEN [st |-> "aborted", val |-> JAbsent, issues |-> {path}, throws |-> FALSE]
  ELSE [st |-> "valid", val |-> x, issues |-> {}, throws |-> throwsOn]

NoData == [url |-> JAbsent, html |-> JAbsent, export |-> NoExport]

\* RequestSchema without its object-level refinement
RequestSchemaNoRefine(body, exportSchema) ==
  LET u == ZTarget(body.url, body.url.t = "str" /\ urlCustom(body.url.s).throws, "url")
      h == ZTarget(body.html, body.html.t = "str" /\ htmlCustom(body.html.s).throws, "html")
      e == exportSchema
      issues == u.issues \cup h.issues \cup e.issues
  IN IF u.throws \/ h.throws
       THEN [status |-> "throws", issues |-> {}, data |-> NoData, thrown |-> "Error"]
     ELSE IF issues # {}
       THEN [status |-> "invalid", issues |-> issues, data |-> NoData, thrown |-> ""]
     ELSE [status |-> "ok", issues |-> {},
           data |-> [url |-> u.val, html |-> h.val, export |-> e.val], thrown |-> ""]

\* The object schema and its .refine(data => data.url || data.html): the
\* refinement runs only when no key aborted.
RequestSchema(body, exportSchema) ==
  LET u == ZTarget(body.url, body.url.t = "str" /\ urlCustom(body.url.s).throws, "url")
      h == ZTarget(body.html, body.html.t = "str" /\ htmlCustom(body.html.s).throws, "html")
      e == exportSchema
      st == MergeStatus({u.st, h.st, e.st})
      inner == u.issues \cup h.issues \cup e.issues
      hasTarget == (u.val.t = "str" /\ u.val.s # "") \/ (h.val.t = "str" /\ h.val.s # "")
      issues == IF st # "aborted" /\ ~hasTarget
                  THEN inner \cup {MissingTargetMessage} ELSE inner
  IN IF u.throws THEN [status |-> "throws", issues |-> {}, data |-> NoData,
                       thrown |-> urlCustom(body.url.s).message]
     ELSE IF h.throws THEN [status |-> "throws", issues |-> {}, data |-> NoData,
                            thrown |-> htmlCustom(body.html.s).message]
     ELSE IF issues # {} THEN [status |-> "invalid", issues |-> issues,
                               data |-> NoData, thrown |-> ""]
     ELSE [status |-> "ok", issues |-> {},
           data |-> [url |-> u.val, html |-> h.val, export |-> e.val],
           thrown |-> ""]

PdfRequestSchema(body) == RequestSchema(body, PdfExportSchema(body.export))

ImageRequestSchema(body) == RequestSchema(body, ImageExportSchema(body.export))

safeParse(schema, body) ==
  IF schema = "pdf" THEN PdfRequestSchema(body) ELSE ImageRequestSchema(body)

(***************************************************************************)
(* The validator on its own: a schema and a body are drawn, zValidator     *)
(* parses the body once.                                                   *)
(***************************************************************************)
UrlInputs == {JAbsent, JStr("https://a.example"), JStr("not a url"), JNum(5)}
HtmlInputs == {JAbsent, JStr("<h1>m1</h1>"), JStr(""), JNum(5)}
ZeroMargin == JMargin(JStr("0"), JStr("0"), JStr("0"), JStr("0"))
ExportObjects ==
  {[EmptyExport EXCEPT !.scale = sc, !.type = ty, !.quality = q, !.margin = m,
                       !.printBackground = pb, !.maxFileSize = f, !.viewport = v] :
     sc \in {JAbsent, JNum(9), JNum(10), JNum(200), JNum(201)},
     ty \in {JAbsent, JStr("jpeg"), JStr("gif")},
     q \in {JAbsent, JNum(-1), JNum(0), JNum(100), JNum(101)},
     m \in {NoMargin, ZeroMargin},
     pb \in {JAbsent, JBool(TRUE)},
     f \in {JAbsent, JNum(0), JNum(100)},
     v \in {NoViewport, JViewport(JNum(800), JAbsent)}}
ExportInputs == {NoExport, [NoExport EXCEPT !.t = "num"]} \cup ExportObjects
Bodies == [url : UrlInputs, html : HtmlInputs, export : ExportInputs]

\* browser.ts with no launchBrowser call of its own in progress
NumCallers == 3
Callers == 1..NumCallers
LaunchOff ==
  [pc |-> [c \in Callers |-> "off"], got |-> [c \in Callers |-> "none"],
   launches |-> 0, connects |-> 0, assigns |-> 0]

EnvOff == [routes |-> {}, keys |-> {}, bodies |-> {}, lens |-> {}, dims |-> {}]

NoResult == [status |-> "none", issues |-> {}, data |-> NoData, thrown |-> ""]
ValOff == [pc |-> "off", schema |-> "pdf", body |-> NoData, result |-> NoResult]

\* zValidator('json', schema): schema.safeParseAsync(value)
Validate ==
  /\ val.pc = "parse"
  /\ val' = [val EXCEPT !.pc = "done", !.result = safeParse(val.schema, val.body)]
  /\ UNCHANGED <<apiKey, browser, runPc, env, reqs, pages, fit, launch>>

(***************************************************************************)
(* compressImage.  The codec (sharp) is outside the repository: an encode  *)
(* either throws or yields some size in 1..MaxBytes; a resize to a zero    *)
(* width or height always throws.  Bytes carry where they came from: src   *)
(* is the content they depict, via the step that produced them.            *)
(***************************************************************************)
MaxBytes == 3
Sizes == 1..MaxBytes

FallbackQuality == 100
QualityFloor == 10
QualityDecrement == 10
ResizeQuality == 70

Bytes(src, len, via, w, h) ==
  [src |-> src, len |-> len, via |-> via, width |-> w, height |-> h]
NoBytes == Bytes("", 0, "none", 0, 0)

\* A scale factor as the double the code holds: tenths / 10 + excess * 1e-17.
ScaleStart == [tenths |-> 9, excess |-> 0]

\* scale -= 0.1 in IEEE-754 doubles, from 0.9: 0.8, 0.7000000000000001,
\* 0.6000000000000001, 0.5000000000000001, 0.40000000000000013,
\* 0.30000000000000016, 0.20000000000000015
ScaleMinusTenth(sc) ==
  CASE sc.tenths = 9 -> [tenths |-> 8, excess |-> 0]
    [] sc.tenths = 8 -> [tenths |-> 7, excess |-> 10]
    [] sc.tenths = 7 -> [tenths |-> 6, excess |-> 10]
    [] sc.tenths = 6 -> [tenths |-> 5, excess |-> 10]
    [] sc.tenths = 5 -> [tenths |-> 4, excess |-> 13]
    [] sc.tenths = 4 -> [tenths |-> 3, excess |-> 16]
    [] OTHER -> [tenths |-> sc.tenths - 1, excess |-> 15]

\* a scale loop that stops before 0.3
ScaleInRangeStrict(sc) == sc.tenths > 3

\* scale >= 0.3
ScaleInRange(sc) == sc.tenths > 3 \/ (sc.tenths = 3 /\ sc.excess >= 0)

\* Math.floor(dim * scale): the excess never carries a dimension this small
\* over the next integer
FloorScaled(dim, sc) == (dim * sc.tenths) \div 10

NoAttempt == [kind |-> "none", quality |-> 0, tenths |-> 0, width |-> 0, height |-> 0]

\* let currentQuality = quality || 100
InitialQuality(quality) ==
  IF quality.t = "absent" \/ quality.n = 0 THEN FallbackQuality ELSE quality.n

\* a quality loop that runs on to quality 0
QualityLoopRunsToZero(q) == q >= 0

\* while (currentQuality >= 10)
QualityLoopRuns(q) == q >= QualityFloor

\* The invocation up to its first await.
compressImageStart(imageBuffer, targetFormat, maxFileSize, quality) ==
  LET q == InitialQuality(quality) IN
  [pc |-> IF QualityLoopRuns(q) THEN "encodeQuality" ELSE "metadata",
   image |-> imageBuffer, format |-> targetFormat, maxFileSize |-> maxFileSize,
   quality |-> quality, currentQuality |-> q, scale |-> ScaleStart,
   qualityAttempts |-> 0, scaleAttempts |-> 0, metadataReads |-> 0,
   overBudget |-> 0, last |-> NoAttempt, result |-> NoBytes, error |-> ""]

FitOff ==
  [pc |-> "off", image |-> NoBytes, format |-> "png", maxFileSize |-> 0,
   quality |-> JAbsent, currentQuality |-> 0, scale |-> ScaleStart,
   qualityAttempts |-> 0, scaleAttempts |-> 0, metadataReads |-> 0,
   overBudget |-> 0, last |-> NoAttempt, result |-> NoBytes, error |-> ""]

FitThrown(f, msg) == [f EXCEPT !.pc = "thrown", !.error = msg]
FitReturned(f, bytes) == [f EXCEPT !.pc = "returned", !.result = bytes]

\* after the quality loop: await sharp(imageBuffer).metadata() comes next
AfterQualityLoop(f) == [f EXCEPT !.pc = "metadata"]

\* One pass of the quality loop, its encode yielding `size`.
QualityEncoded(f, size) ==
  LET g == [f EXCEPT !.qualityAttempts = @ + 1,
                     !.last = [kind |-> "quality", quality |-> f.currentQuality,
                               tenths |-> 10, width |-> f.image.width,
                               height |-> f.image.height]]
  IN IF size <= f.maxFileSize
       THEN FitReturned(g, Bytes(f.image.src, size, "quality", g.last.width, g.last.height))
       ELSE LET h == [g EXCEPT !.currentQuality = @ - QualityDecrement,
                               !.overBudget = @ + 1]
            IN IF QualityLoopRuns(h.currentQuality) THEN h ELSE AfterQualityLoop(h)

\* metadata resolved with the image's dimensions (0: not known)
MetadataRead(f) ==
  LET g == [f EXCEPT !.metadataReads = @ + 1] IN
  IF f.image.width # 0 /\ f.image.height # 0
    THEN [g EXCEPT !.pc = "encodeScale", !.scale = ScaleStart]
    ELSE FitReturned(g, f.image)

\* a scale loop whose fallback is its last, smallest encode
ScaleEncodedKeepLast(f, size) ==
  LET g == [f EXCEPT !.scaleAttempts = @ + 1,
                     !.last = [kind |-> "scale", quality |-> ResizeQuality,
                               tenths |-> f.scale.tenths,
                               width |-> FloorScaled(f.image.width, f.scale),
                               height |-> FloorScaled(f.image.height, f.scale)]]
      bytes == Bytes(f.image.src, size, "scale", g.last.width, g.last.height)
  IN IF size <= f.maxFileSize
       THEN FitReturned(g, bytes)
       ELSE LET h == [g EXCEPT !.scale = ScaleMinusTenth(@), !.overBudget = @ + 1]
            IN IF ScaleInRange(h.scale) THEN h ELSE FitReturned(h, bytes)

\* One pass of the scale loop, its resize and encode yielding `size`.
ScaleEncoded(f, size) ==
  LET g == [f EXCEPT !.scaleAttempts = @ + 1,
                     !.last = [kind |-> "scale", quality |-> ResizeQuality,
                               tenths |-> f.scale.tenths,
                               width |-> FloorScaled(f.image.width, f.scale),
                               height |-> FloorScaled(f.image.height, f.scale)]]
  IN IF size <= f.maxFileSize
       THEN FitReturned(g, Bytes(f.image.src, size, "scale", g.last.width, g.last.height))
       ELSE LET h == [g EXCEPT !.scale = ScaleMinusTenth(@), !.overBudget = @ + 1]
            IN IF ScaleInRange(h.scale) THEN h ELSE FitReturned(h, f.image)

\* sharp rejects a resize to a width or height of 0
ResizeThrows(f) ==
  FloorScaled(f.image.width, f.scale) = 0 \/ FloorScaled(f.image.height, f.scale) = 0

\* The states one await of compressImage can resolve to.
compressImage(f) ==
  CASE f.pc = "encodeQuality" ->
         {QualityEncoded(f, size) : size \in Sizes}
           \cup {[FitThrown(f, "encode failed") EXCEPT !.qualityAttempts = @ + 1]}
    [] f.pc = "metadata" ->
         {MetadataRead(f), [FitThrown(f, "metadata failed") EXCEPT !.metadataReads = @ + 1]}
    [] f.pc = "encodeScale" ->
         (IF ResizeThrows(f) THEN {} ELSE {ScaleEncoded(f, size) : size \in Sizes})
           \cup {[FitThrown(f, "resize failed") EXCEPT !.scaleAttempts = @ + 1]}
    [] OTHER -> {}

(***************************************************************************)
(* The fitter on its own: one invocation on drawn arguments.               *)
(***************************************************************************)
ImageDims == {<<0, 0>>, <<1, 1>>, <<3, 2>>, <<10, 10>>}
FitQualities == {JAbsent} \cup {JNum(q) : q \in QualityMin..QualityMax}

FitStep ==
  /\ fit.pc \in {"encodeQuality", "metadata", "encodeScale"}
  /\ fit' \in compressImage(fit)
  /\ UNCHANGED <<apiKey, browser, runPc, env, reqs, pages, val, launch>>

FitInputs ==
  {compressImageStart(Bytes("m", MaxBytes, "capture", d[1], d[2]), fmt, max, q) :
     d \in ImageDims, fmt \in ImageTypes, max \in Sizes, q \in FitQualities}

InitFit ==
  /\ fit \in FitInputs
  /\ apiKey = "" /\ browser = "null" /\ runPc = "off" /\ env = EnvOff
  /\ reqs = <<>> /\ pages = <<>> /\ val = ValOff /\ launch = LaunchOff

SpecFit == InitFit /\ [][FitStep]_vars

InitValidate ==
  /\ val \in [pc : {"parse"}, schema : {"pdf", "image"}, body : Bodies, result : {NoResult}]
  /\ apiKey = "" /\ browser = "null" /\ runPc = "off" /\ env = EnvOff
  /\ reqs = <<>> /\ pages = <<>> /\ fit = FitOff /\ launch = LaunchOff

SpecValidate == InitValidate /\ [][Validate]_vars

(***************************************************************************)
(* browser.ts: the shared handle.                                          *)
(***************************************************************************)
\* a getBrowser that does not see the handle
getBrowserUnset(handle) ==
  [throws |-> TRUE, ret |-> "null", message |-> "Browser not launched"]

\* getBrowser(): the handle, or throws Error('Browser not launched')
getBrowser(handle) ==
  IF handle # "null"
    THEN [throws |-> FALSE, ret |-> handle, message |-> ""]
    ELSE [throws |-> TRUE, ret |-> "null", message |-> "Browser not launched"]

\* the Browser object the connect of caller c's launchBrowser resolves to
BrowserHandle(c) == "browser" \o ToString(c)

\* launchBrowser() up to its first await: if (browser) return; otherwise
\* getBrowserWebsocket() is called and puppeteer.launch(...) starts a browser
launchBrowser(c) ==
  /\ launch.pc[c] = "idle"
  /\ launch' = IF browser # "null"
                 THEN [launch EXCEPT !.pc[c] = "done"]
                 ELSE [launch EXCEPT !.pc[c] = "launching", !.launches = @ + 1]
  /\ UNCHANGED <<apiKey, browser, runPc, env, reqs, pages, val, fit>>

\* await getBrowserWebsocket() resolves with the endpoint and
\* puppeteer.connect({browserWSEndpoint}) is called, or the launch rejects
getBrowserWebsocket(c) ==
  /\ launch.pc[c] = "launching"
  /\ \/ launch' = [launch EXCEPT !.pc[c] = "connecting", !.connects = @ + 1]
     \/ launch' = [launch EXCEPT !.pc[c] = "failed"]
  /\ UNCHANGED <<apiKey, browser, runPc, env, reqs, pages, val, fit>>

\* browser = await puppeteer.connect(...): the handle is assigned, or the
\* connect rejects
Connect(c) ==
  /\ launch.pc[c] = "connecting"
  /\ \/ /\ browser' = BrowserHandle(c)
        /\ launch' = [launch EXCEPT !.pc[c] = "done", !.assigns = @ + 1]
     \/ /\ browser' = browser
        /\ launch' = [launch EXCEPT !.pc[c] = "failed"]
  /\ UNCHANGED <<apiKey, runPc, env, reqs, pages, val, fit>>

\* a client calls getBrowser() and keeps what it got
GetBrowserCall(c) ==
  /\ launch.pc[c] # "off"
  /\ LET b == getBrowser(browser) IN
     launch' = [launch EXCEPT !.got[c] = IF b.throws THEN b.message ELSE b.ret]
  /\ UNCHANGED <<apiKey, browser, runPc, env, reqs, pages, val, fit>>

\* browser.ts on its own: every caller calls launchBrowser once, at any time,
\* and getBrowser at any time.
InitBrowser ==
  /\ launch = [LaunchOff EXCEPT !.pc = [c \in Callers |-> "idle"]]
  /\ apiKey = "" /\ browser = "null" /\ runPc = "off" /\ env = EnvOff
  /\ reqs = <<>> /\ pages = <<>> /\ val = ValOff /\ fit = FitOff

NextBrowser ==
  \E c \in Callers :
    \/ launchBrowser(c)
    \/ getBrowserWebsocket(c)
    \/ Connect(c)
    \/ GetBrowserCall(c)

SpecBrowser == InitBrowser /\ [][NextBrowser]_vars

(***************************************************************************)
(* index.ts: the server.  Each request slot carries one request from its   *)
(* arrival to its response; every await of its handler is one step.        *)
(***************************************************************************)
NumRequests == 2
Requests == 1..NumRequests

Routes == {"GET /health", "GET /", "POST /pdf", "POST /image", "GET /other"}
KeyHeaders == {"", "secret", "wrong"}
ApiKeys == {"", "secret"}

\* the html a request sends: it names the request
Marker(r) == "<h1>" \o ToString(r) \o "</h1>"

\* The bodies request r may send, by kind: url and html with the defaults;
\* html alone with a viewport, a budget of 1 byte and quality 20; html alone
\* with a budget of 2 bytes and the default quality; html alone with a clip
\* rectangle and fullPage left out; no target; a malformed url.
RequestBody(r, kind) ==
  CASE kind = "both" ->
         [url |-> JStr("https://a.example"), html |-> JStr(Marker(r)), export |-> NoExport]
    [] kind = "small" ->
         [url |-> JAbsent, html |-> JStr(Marker(r)),
          export |-> [EmptyExport EXCEPT !.type = JStr("jpeg"), !.quality = JNum(20),
                                         !.maxFileSize = JNum(1), !.margin = ZeroMargin,
                                         !.viewport = JViewport(JNum(800), JAbsent)]]
    [] kind = "full" ->
         [url |-> JAbsent, html |-> JStr(Marker(r)),
          export |-> [EmptyExport EXCEPT !.maxFileSize = JNum(2), !.margin = ZeroMargin]]
    [] kind = "clip" ->
         [url |-> JAbsent, html |-> JStr(Marker(r)),
          export |-> [EmptyExport EXCEPT !.clip = JClip(JNum(0), JNum(0), JNum(10), JNum(10)),
                                         !.margin = ZeroMargin]]
    [] kind = "none" -> [url |-> JAbsent, html |-> JAbsent, export |-> NoExport]
    [] OTHER -> [url |-> JStr("not a url"), html |-> JAbsent, export |-> NoExport]

\* One request at a time, every route, key and body kind.
ServerEnv ==
  [routes |-> Routes, keys |-> KeyHeaders,
   bodies |-> {"both", "small", "full", "clip", "none", "badUrl"},
   lens |-> Sizes, dims |-> {<<0, 0>>, <<10, 10>>}]

\* Concurrent /image requests of html that names the request, with captures
\* of 1 or 2 bytes against the budget of 1.
ConcurrentEnv ==
  [routes |-> {"POST /image"}, keys |-> {"secret"},
   bodies |-> {"small"}, lens |-> {1, 2}, dims |-> {<<10, 10>>}]

\* the options generateImage hands to page.screenshot
ScreenshotOptions(export) ==
  [called |-> TRUE, type |-> export.type,
   quality |-> IF export.type.s = "jpeg" THEN export.quality ELSE JAbsent,
   fullPage |-> export.fullPage, clip |-> export.clip,
   omitBackground |-> export.omitBackground, encoding |-> export.encoding]

NoShot ==
  [called |-> FALSE, type |-> JAbsent, quality |-> JAbsent, fullPage |-> JAbsent,
   clip |-> NoClip, omitBackground |-> JAbsent, encoding |-> JAbsent]

IdleRequest ==
  [pc |-> "idle", route |-> "", key |-> "", body |-> NoData, data |-> NoData,
   handle |-> "null", page |-> 0, load |-> "", shot |-> NoShot, res |-> NoBytes,
   fit |-> FitOff,
   status |-> 0, contentType |-> "", out |-> NoBytes, message |-> "", issues |-> {},
   browserCalls |-> 0, captures |-> 0, responses |-> 0]

NewPageState == [open |-> TRUE, content |-> "", closes |-> 0]

\* c.json(body, status)
RespondJson(q, status, message) ==
  [q EXCEPT !.pc = "responded", !.status = status, !.contentType = "application/json",
            !.message = message, !.responses = @ + 1]

\* c.body(buffer, {headers: {'Content-Type': contentType}})
RespondBody(q, contentType, buffer) ==
  [q EXCEPT !.pc = "responded", !.status = 200, !.contentType = contentType,
            !.out = buffer, !.responses = @ + 1]

\* a catch that hides the message behind a 500
CatchGeneric(q, errorMessage) == RespondJson(q, 500, "Internal Server Error")

\* the handlers' catch: c.json({error: errorMessage}, 400)
Catch(q, errorMessage) == RespondJson(q, 400, errorMessage)

\* a gate that only asks for some key
ApiKeyMiddlewareAnyKey(configured, providedKey) ==
  IF configured = "" THEN [next |-> TRUE, error |-> ""]
  ELSE IF providedKey = "" THEN [next |-> FALSE, error |-> "API key is required"]
  ELSE [next |-> TRUE, error |-> ""]

\* The API key middleware: next(), or the 401 it answers with.
ApiKeyMiddleware(configured, providedKey) ==
  IF configured = "" THEN [next |-> TRUE, error |-> ""]
  ELSE IF providedKey = "" THEN [next |-> FALSE, error |-> "API key is required"]
  ELSE IF providedKey # configured THEN [next |-> FALSE, error |-> "Invalid API key"]
  ELSE [next |-> TRUE, error |-> ""]

\* The middleware chain up to the route's validator: /health is registered
\* ahead of the API key middleware, every other route behind it.
Dispatch(q, configured) ==
  IF q.route = "GET /health" THEN RespondJson(q, 200, "ok")
  ELSE LET gate == ApiKeyMiddleware(configured, q.key) IN
       IF ~gate.next THEN RespondJson(q, 401, gate.error)
       ELSE IF q.route = "GET /" THEN RespondJson(q, 200, "ready!")
       ELSE IF q.route \in {"POST /pdf", "POST /image"} THEN [q EXCEPT !.pc = "validate"]
       ELSE RespondJson(q, 404, "404 Not Found")

SchemaOf(route) == IF route = "POST /pdf" THEN "pdf" ELSE "image"

Truthy(x) == x.t = "str" /\ x.s # ""

\* a load that prefers html over url
LoadCallHtmlFirst(q) ==
  IF Truthy(q.data.html) THEN [q EXCEPT !.pc = "load", !.load = "setContent"]
  ELSE IF Truthy(q.data.url) THEN [q EXCEPT !.pc = "load", !.load = "goto"]
  ELSE Catch(q, "url or html is required")

\* if (body.url) goto else if (body.html) setContent else throw
LoadCall(q) ==
  IF Truthy(q.data.url) THEN [q EXCEPT !.pc = "load", !.load = "goto"]
  ELSE IF Truthy(q.data.html) THEN [q EXCEPT !.pc = "load", !.load = "setContent"]
  ELSE Catch(q, "url or html is required")

\* if (body.export.viewport) await page.setViewport(...)
AfterNewPage(q) ==
  IF q.data.export.viewport.t = "obj" THEN [q EXCEPT !.pc = "setViewport"] ELSE LoadCall(q)

\* generatePdf / generateImage up to the first await: getBrowser(), then
\* browser.newPage() is called
StartRender(q, handle) ==
  LET b == getBrowser(handle)
      g == [q EXCEPT !.browserCalls = @ + 1]
  IN IF b.throws THEN Catch(g, b.message)
                 ELSE [g EXCEPT !.pc = "newPage", !.handle = b.ret]

\* zValidator's answer to a body: the hook-less validator answers 400 with the
\* issues; an exception leaving the parse reaches the framework's error handler
AfterValidation(q, parsed, handle) ==
  IF parsed.status = "throws" THEN RespondJson(q, 500, "Internal Server Error")
  ELSE IF parsed.status = "invalid"
    THEN [RespondJson(q, 400, "ZodError") EXCEPT !.issues = parsed.issues]
  ELSE StartRender([q EXCEPT !.data = parsed.data], handle)

\* a size check that also compresses a capture of exactly the budget
NeedsCompressionAtBudget(res, maxFileSize) == res.len >= maxFileSize

\* if (res.length > body.export.maxFileSize)
NeedsCompression(res, maxFileSize) == res.len > maxFileSize

\* generateImage after page.close(): compress, or return the capture
AfterClose(q) ==
  IF NeedsCompression(q.res, q.data.export.maxFileSize.n)
    THEN [q EXCEPT !.pc = "compress",
                   !.fit = compressImageStart(q.res, q.data.export.type.s,
                                              q.data.export.maxFileSize.n,
                                              q.data.export.quality)]
    ELSE RespondBody(q, "image/" \o q.data.export.type.s, q.res)

\* page.close() on page p
ClosePage(ps, p) == [ps EXCEPT ![p].open = FALSE, ![p].closes = @ + 1]

\* a newPage that hands out the browser's first page again
OpenPageShared(ps) ==
  IF ps = <<>> THEN [pages |-> <<NewPageState>>, page |-> 1]
               ELSE [pages |-> ps, page |-> 1]

\* browser.newPage(): a page of its own
OpenPage(ps) == [pages |-> Append(ps, NewPageState), page |-> Len(ps) + 1]

\* a server that accepts requests from the start of run()
ReceiveBeforeLaunch(r) ==
  /\ r \in DOMAIN reqs
  /\ runPc # "off"
  /\ reqs[r].pc = "idle"
  /\ IF r = 1 THEN TRUE ELSE reqs[r - 1].pc # "idle"
  /\ \E route \in env.routes, key \in env.keys :
       reqs' = [reqs EXCEPT ![r] =
                  Dispatch([IdleRequest EXCEPT !.route = route, !.key = key], apiKey)]
  /\ UNCHANGED <<apiKey, browser, runPc, env, pages, val, fit, launch>>

\* A request arrives and runs through the middleware.
Receive(r) ==
  /\ r \in DOMAIN reqs
  /\ runPc = "serving"
  /\ reqs[r].pc = "idle"
  /\ IF r = 1 THEN TRUE ELSE reqs[r - 1].pc # "idle"
  /\ \E route \in env.routes, key \in env.keys :
       reqs' = [reqs EXCEPT ![r] =
                  Dispatch([IdleRequest EXCEPT !.route = route, !.key = key], apiKey)]
  /\ UNCHANGED <<apiKey, browser, runPc, env, pages, val, fit, launch>>

\* zValidator('json', schema) parses the body; a valid body enters the handler.
zValidator(r) ==
  /\ r \in DOMAIN reqs
  /\ reqs[r].pc = "validate"
  /\ \E kind \in env.bodies :
       LET body == RequestBody(r, kind) IN
       reqs' = [reqs EXCEPT ![r] =
                  AfterValidation([reqs[r] EXCEPT !.body = body],
                                  safeParse(SchemaOf(reqs[r].route), body), browser)]
  /\ UNCHANGED <<apiKey, browser, runPc, env, pages, val, fit, launch>>

\* await browser.newPage()
NewPage(r) ==
  /\ r \in DOMAIN reqs
  /\ reqs[r].pc = "newPage"
  /\ \/ LET o == OpenPage(pages) IN
          /\ pages' = o.pages
          /\ reqs' = [reqs EXCEPT ![r] = AfterNewPage([reqs[r] EXCEPT !.page = o.page])]
     \/ /\ reqs' = [reqs EXCEPT ![r] = Catch(reqs[r], "newPage failed")]
        /\ UNCHANGED pages
  /\ UNCHANGED <<apiKey, browser, runPc, env, val, fit, launch>>

\* await page.setViewport(body.export.viewport)
SetViewport(r) ==
  /\ r \in DOMAIN reqs
  /\ reqs[r].pc = "setViewport"
  /\ \/ reqs' = [reqs EXCEPT ![r] = LoadCall(reqs[r])]
     \/ reqs' = [reqs EXCEPT ![r] = Catch(reqs[r], "setViewport failed")]
  /\ UNCHANGED <<apiKey, browser, runPc, env, pages, val, fit, launch>>

\* await page.goto(url) / await page.setContent(html)
Load(r) ==
  /\ r \in DOMAIN reqs
  /\ reqs[r].pc = "load"
  /\ \/ /\ pages' = [pages EXCEPT ![reqs[r].page].content =
                       IF reqs[r].load = "goto" THEN reqs[r].data.url.s
                                                ELSE reqs[r].data.html.s]
        /\ reqs' = [reqs EXCEPT ![r].pc = "capture"]
     \/ /\ reqs' = [reqs EXCEPT ![r] = Catch(reqs[r], "load failed")]
        /\ UNCHANGED pages
  /\ UNCHANGED <<apiKey, browser, runPc, env, val, fit, launch>>

\* page.pdf(body.export) / page.screenshot({...}) is called
CaptureCall(q) ==
  IF q.route = "POST /pdf"
    THEN [q EXCEPT !.captures = @ + 1]
    ELSE [q EXCEPT !.captures = @ + 1, !.shot = ScreenshotOptions(q.data.export)]

\* await page.pdf(...) then page.close() and the response; or
\* await page.screenshot(...)
Capture(r) ==
  /\ r \in DOMAIN reqs
  /\ reqs[r].pc = "capture"
  /\ \/ \E len \in env.lens, d \in env.dims :
          LET q == [CaptureCall(reqs[r]) EXCEPT
                      !.res = Bytes(pages[reqs[r].page].content, len, "capture", d[1], d[2])]
          IN IF q.route = "POST /pdf"
               THEN /\ pages' = ClosePage(pages, q.page)
                    /\ reqs' = [reqs EXCEPT ![r] = RespondBody(q, "application/pdf", q.res)]
               ELSE /\ reqs' = [reqs EXCEPT ![r] = [q EXCEPT !.pc = "close"]]
                    /\ UNCHANGED pages
     \/ /\ reqs' = [reqs EXCEPT ![r] =
                      Catch(CaptureCall(reqs[r]), "capture failed")]
        /\ UNCHANGED pages
  /\ UNCHANGED <<apiKey, browser, runPc, env, val, fit, launch>>

\* generateImage: await page.close(), then the size check
Close(r) ==
  /\ r \in DOMAIN reqs
  /\ reqs[r].pc = "close"
  /\ \/ /\ pages' = ClosePage(pages, reqs[r].page)
        /\ reqs' = [reqs EXCEPT ![r] = AfterClose(reqs[r])]
     \/ /\ pages' = [pages EXCEPT ![reqs[r].page].closes = @ + 1]
        /\ reqs' = [reqs EXCEPT ![r] = Catch(reqs[r], "close failed")]
  /\ UNCHANGED <<apiKey, browser, runPc, env, val, fit, launch>>

\* one await of compressImage resolves; its return is the response body
Compress(r) ==
  /\ r \in DOMAIN reqs
  /\ reqs[r].pc = "compress"
  /\ \E f \in compressImage(reqs[r].fit) :
       LET q == [reqs[r] EXCEPT !.fit = f] IN
       reqs' = [reqs EXCEPT ![r] =
                  IF f.pc = "returned"
                    THEN RespondBody(q, "image/" \o q.data.export.type.s, f.result)
                  ELSE IF f.pc = "thrown" THEN Catch(q, f.error)
                  ELSE q]
  /\ UNCHANGED <<apiKey, browser, runPc, env, pages, val, fit, launch>>

(***************************************************************************)
(* run(): launchBrowser() is awaited, then serve().                        *)
(***************************************************************************)
\* launchBrowser: if (browser) return; else getBrowserWebsocket() is called
RunStart ==
  /\ runPc = "start"
  /\ runPc' = IF browser # "null" THEN "serving" ELSE "launching"
  /\ UNCHANGED <<apiKey, browser, env, reqs, pages, val, fit, launch>>

\* await getBrowserWebsocket(): puppeteer.launch resolves or rejects
Launched ==
  /\ runPc = "launching"
  /\ runPc' \in {"connecting", "crashed"}
  /\ UNCHANGED <<apiKey, browser, env, reqs, pages, val, fit, launch>>

\* browser = await puppeteer.connect(...); then serve(...)
Connected ==
  /\ runPc = "connecting"
  /\ \/ browser' = "browser" /\ runPc' = "serving"
     \/ browser' = browser /\ runPc' = "crashed"
  /\ UNCHANGED <<apiKey, env, reqs, pages, val, fit, launch>>

Init ==
  /\ apiKey \in ApiKeys
  /\ browser = "null"
  /\ runPc = "start"
  /\ env = ServerEnv
  /\ reqs = [r \in {1} |-> IdleRequest]
  /\ pages = <<>>
  /\ val = ValOff
  /\ fit = FitOff
  /\ launch = LaunchOff

InitConcurrent ==
  /\ apiKey = "secret"
  /\ browser = "null"
  /\ runPc = "start"
  /\ env = ConcurrentEnv
  /\ reqs = [r \in Requests |-> IdleRequest]
  /\ pages = <<>>
  /\ val = ValOff
  /\ fit = FitOff
  /\ launch = LaunchOff

Next ==
  \/ RunStart
  \/ Launched
  \/ Connected
  \/ \E r \in Requests :
       \/ Receive(r)
       \/ zValidator(r)
       \/ NewPage(r)
       \/ SetViewport(r)
       \/ Load(r)
       \/ Capture(r)
       \/ Close(r)
       \/ Compress(r)

Spec == Init /\ [][Next]_vars

SpecConcurrent == InitConcurrent /\ [][Next]_vars

(***************************************************************************)
(* Claims on the validator (SpecValidate).                                 *)
(***************************************************************************)
NoTargetParsed ==
  val.pc = "done" /\ val.body.url.t = "absent" /\ val.body.html.t = "absent"

\* stated from the request body alone: export is omitted, or every key it
\* supplies has the JSON type its schema asks for and (PDF) margin is supplied
ExportWellTyped ==
  LET e == val.body.export
      scalar(x, t) == x.t \in {"absent", t}
  IN \/ e.t = "absent"
     \/ /\ e.t = "obj"
        /\ scalar(e.scale, "num") /\ scalar(e.quality, "num")
        /\ e.type.t = "absent" \/ (e.type.t = "str" /\ e.type.s \in ImageTypes)
        /\ e.encoding.t = "absent" \/ (e.encoding.t = "str" /\ e.encoding.s \in Encodings)
        /\ scalar(e.fullPage, "bool") /\ scalar(e.omitBackground, "bool")
        /\ e.clip.t = "absent"
             \/ (e.clip.t = "obj" /\ \A k \in {"x", "y", "width", "height"} : e.clip[k].t = "num")
        /\ e.viewport.t = "absent"
             \/ (e.viewport.t = "obj" /\ scalar(e.viewport.width, "num")
                                      /\ scalar(e.viewport.height, "num"))
        /\ val.schema = "image" => scalar(e.maxFileSize, "num")
        /\ val.schema = "pdf" =>
             /\ scalar(e.printBackground, "bool")
             /\ e.margin.t = "obj"
             /\ \A k \in {"top", "right", "bottom", "left"} : e.margin[k].t = "str"

\* C10 as stated: a body with neither url nor html fails validation with the
\* message 'Either url or html must be provided', whatever export holds.
C10_MissingTargetMessageAlways ==
  NoTargetParsed =>
    (val.result.status = "invalid" /\ MissingTargetMessage \in val.result.issues)

\* C10 amended: a body with neither url nor html always fails validation, for
\* both schemas and whatever export holds; the failure carries the message
\* 'Either url or html must be provided' whenever export is well typed.
C10_MissingTargetFails ==
  NoTargetParsed =>
    /\ val.result.status = "invalid"
    /\ ExportWellTyped => MissingTargetMessage \in val.result.issues

\* C10 witness: neither target, an export object whose scale is out of range,
\* and the message among the issues
C10_Witness ==
  /\ NoTargetParsed
  /\ val.body.export.t = "obj" /\ val.body.export.scale = JNum(201)
  /\ MissingTargetMessage \in val.result.issues
  /\ "export.scale" \in val.result.issues

\* C11: every accepted body has scale within [0.1, 2], quality within
\* [0, 100] and (image) maxFileSize > 0 in its validated output, defaulted
\* fields included; a body whose scale or quality is outside its interval is
\* never accepted; and an accepted in-range value comes out as it was supplied.
C11_BoundsNeverClamped ==
  val.pc = "done" =>
    LET e == val.body.export
        ok == val.result.status = "ok"
        o == val.result.data.export
        supplied(k) == e.t = "obj" /\ e[k].t = "num"
    IN /\ ok => /\ o.scale.t = "num" /\ o.scale.n >= 10 /\ o.scale.n <= 200
                /\ o.quality.t = "num" /\ o.quality.n >= 0 /\ o.quality.n <= 100
                /\ val.schema = "image" => (o.maxFileSize.t = "num" /\ o.maxFileSize.n > 0)
       /\ (supplied("scale") /\ (e.scale.n < 10 \/ e.scale.n > 200)) => ~ok
       /\ (supplied("quality") /\ (e.quality.n < 0 \/ e.quality.n > 100)) => ~ok
       /\ (val.schema = "image" /\ supplied("maxFileSize") /\ e.maxFileSize.n <= 0) => ~ok
       /\ ok => /\ o.scale = (IF supplied("scale") THEN e.scale ELSE JNum(100))
                /\ o.quality = (IF supplied("quality") THEN e.quality ELSE JNum(100))
                /\ val.schema = "image" =>
                     o.maxFileSize = (IF supplied("maxFileSize") THEN e.maxFileSize
                                                                ELSE JNum(4194304))

\* C11 witness: an accepted image body whose scale 0.1 and quality 0 sit on
\* their lower bounds and whose maxFileSize is defaulted
C11_Witness ==
  /\ val.pc = "done" /\ val.schema = "image" /\ val.result.status = "ok"
  /\ val.body.export.t = "obj" /\ val.body.export.scale = JNum(10)
  /\ val.body.export.quality = JNum(0) /\ val.body.export.maxFileSize = JAbsent
  /\ val.result.data.export.scale = JNum(10)
  /\ val.result.data.export.maxFileSize = JNum(4194304)

\* stated from the body alone: at least one target, and each one supplied is
\* an absolute URL or a non-empty html string
TargetValid(body) ==
  /\ body.url.t = "absent" \/ (body.url.t = "str" /\ body.url.s \in AbsoluteUrls)
  /\ body.html.t = "absent" \/ (body.html.t = "str" /\ body.html.s # "")
  /\ body.url.t = "str" \/ body.html.t = "str"

\* C12: a PDF body with a valid target and an export object that omits margin
\* and printBackground (its other fields missing or valid) is accepted, with
\* margin defaulted to '0' on all four sides and printBackground to false,
\* as when export is omitted altogether.
C12_PdfExportDefaulted ==
  LET e == val.body.export
      o == val.result.data.export
      inRange(x, lo, hi) == x.t = "absent" \/ (x.t = "num" /\ x.n >= lo /\ x.n <= hi)
  IN (/\ val.pc = "done" /\ val.schema = "pdf" /\ TargetValid(val.body)
      /\ \/ e.t = "absent"
         \/ /\ e.t = "obj" /\ e.margin.t = "absent" /\ e.printBackground.t = "absent"
            /\ inRange(e.scale, 10, 200) /\ inRange(e.quality, 0, 100)
            /\ e.type.t = "absent" \/ (e.type.t = "str" /\ e.type.s \in ImageTypes)) =>
       /\ val.result.status = "ok"
       /\ o.margin = JMargin(JStr("0"), JStr("0"), JStr("0"), JStr("0"))
       /\ o.printBackground = JBool(FALSE)

(***************************************************************************)
(* Claims on the fitter (SpecFit).                                         *)
(***************************************************************************)
FitAttempts == fit.qualityAttempts + fit.scaleAttempts

\* the number of quality steps the ladder holds for this invocation
QualityStepCount ==
  Cardinality({k \in 0..10 : InitialQuality(fit.quality) - 10 * k >= 10})

\* C2: compressImage returns the first ladder candidate (every quality step,
\* then the scales 0.9 .. 0.3 at quality 70) that encodes within maxFileSize:
\* what it returns from a step fits and every earlier attempt was over budget,
\* no scale step comes before every quality step was over budget, and the
\* original comes back only after the whole ladder was over budget.
C2_FirstFittingCandidate ==
  /\ (fit.pc = "returned" /\ fit.result.via \in {"quality", "scale"}) =>
       /\ fit.result.len <= fit.maxFileSize
       /\ fit.result.via = fit.last.kind
       /\ fit.overBudget = FitAttempts - 1
  /\ (fit.pc \in {"metadata", "encodeScale"} \/ fit.metadataReads > 0
        \/ fit.scaleAttempts > 0) =>
       /\ fit.qualityAttempts = QualityStepCount
       /\ fit.overBudget >= QualityStepCount
  /\ (fit.pc # "thrown" /\ fit.last.kind = "quality") =>
       fit.last.quality = InitialQuality(fit.quality) - 10 * (fit.qualityAttempts - 1)
  /\ (fit.pc # "thrown" /\ fit.last.kind = "scale") =>
       /\ fit.last.tenths = 10 - fit.scaleAttempts
       /\ fit.last.tenths \in 3..9
       /\ fit.last.quality = 70
  /\ (fit.pc = "returned" /\ fit.result.via = "capture") =>
       /\ fit.result = fit.image
       /\ fit.overBudget = FitAttempts
       /\ fit.qualityAttempts = QualityStepCount
       /\ (fit.image.width # 0 /\ fit.image.height # 0) => fit.scaleAttempts = 7

\* C2 witness: every quality step was over budget and the scale 0.3 candidate
\* is the one returned
C2_Witness ==
  /\ fit.pc = "returned" /\ fit.result.via = "scale"
  /\ fit.last.tenths = 3 /\ fit.qualityAttempts = 10 /\ fit.overBudget = 16

\* C5 as stated: at most 9 quality re-encodes, 7 scale re-encodes, 16 in all,
\* and one metadata read.
C5_AtMostSixteenReencodes ==
  /\ fit.qualityAttempts <= 9
  /\ fit.scaleAttempts <= 7
  /\ FitAttempts <= 16
  /\ fit.metadataReads <= 1

\* C5 amended: every invocation terminates (each await that resolves is one
\* more codec call, and the calls are bounded): at most 10 quality re-encodes,
\* at most 7 scale re-encodes, at most 17 in all, and at most one metadata read.
C5_BoundedReencodes ==
  /\ [](/\ fit.qualityAttempts <= 10
        /\ fit.scaleAttempts <= 7
        /\ FitAttempts <= 17
        /\ fit.metadataReads <= 1)
  /\ [][FitAttempts' + fit'.metadataReads = FitAttempts + fit.metadataReads + 1]_fit

\* C5 witness: an invocation that ran the whole ladder
C5_Witness ==
  /\ fit.pc = "returned" /\ fit.qualityAttempts = 10 /\ fit.scaleAttempts = 7
  /\ fit.metadataReads = 1

\* C13: for every quality q supplied in 0..100 (100 when unset) the quality
\* steps attempted are q, q - 10, q - 20, ... starting at q itself, and when
\* none fits the step at quality 10 has been attempted before the metadata
\* read and the scale steps begin.
C13_QualityLadderFromInitial ==
  LET q == IF fit.quality.t = "absent" THEN 100 ELSE fit.quality.n IN
  /\ (fit.pc \in {"encodeQuality", "metadata", "encodeScale", "returned"}
        /\ fit.last.kind = "quality") =>
       fit.last.quality = q - 10 * (fit.qualityAttempts - 1)
  /\ fit.pc = "encodeQuality" => fit.currentQuality = q - 10 * fit.qualityAttempts
  /\ fit.pc = "metadata" => (fit.last.kind = "quality" /\ fit.last.quality = 10)

(***************************************************************************)
(* Claims on the server (Spec: one request; SpecConcurrent: several).      *)
(***************************************************************************)
RenderRoutes == {"POST /pdf", "POST /image"}
Responded(q) == q.pc = "responded"
Target(q) == IF Truthy(q.body.url) THEN q.body.url.s ELSE q.body.html.s

\* C1: the page a request opened is closed exactly once by the time the
\* request has been answered, whether it succeeded or failed.
C1_PageClosedExactlyOnce ==
  \A r \in DOMAIN reqs :
    (Responded(reqs[r]) /\ reqs[r].page # 0) =>
      (pages[reqs[r].page].closes = 1 /\ ~pages[reqs[r].page].open)

\* C3: a capture that is within maxFileSize is what the image path returns,
\* and no re-encode and no metadata read is made for it.
C3_FittingCaptureUntouched ==
  \A r \in DOMAIN reqs :
    LET q == reqs[r] IN
    (q.route = "POST /image" /\ q.res.via = "capture"
       /\ q.res.len <= q.data.export.maxFileSize.n) =>
      /\ q.fit.pc = "off"
      /\ q.fit.qualityAttempts = 0 /\ q.fit.scaleAttempts = 0 /\ q.fit.metadataReads = 0
      /\ Responded(q) => \/ q.status = 200 /\ q.out = q.res
                            /\ q.contentType = "image/" \o q.data.export.type.s
                         \/ q.status = 400 /\ q.message = "close failed"

\* C3 witness: a 1-byte capture against a budget of 1 byte, returned as it is
C3_Witness ==
  \E r \in DOMAIN reqs :
    /\ Responded(reqs[r]) /\ reqs[r].route = "POST /image" /\ reqs[r].status = 200
    /\ reqs[r].res.len = 1 /\ reqs[r].data.export.maxFileSize.n = 1
    /\ reqs[r].out = reqs[r].res

\* the ladder of request q is exhausted: every quality step and, the
\* dimensions known, every scale step was encoded and was over budget
LadderExhausted(q) ==
  /\ q.fit.pc \notin {"off", "thrown"}
  /\ q.fit.metadataReads = 1
  /\ q.fit.overBudget =
       Cardinality({k \in 0..10 : InitialQuality(q.data.export.quality) - 10 * k >= 10})
         + (IF q.res.width # 0 /\ q.res.height # 0 THEN 7 ELSE 0)

\* C4: when every step of the ladder was over budget (or the dimensions are
\* not known once the quality steps were), compressImage returns the capture
\* unmodified, no error is raised and the request is answered 200 with those
\* oversized bytes.
C4_OversizedOriginalIsSuccess ==
  \A r \in DOMAIN reqs :
    LET q == reqs[r] IN
    (q.route = "POST /image" /\ LadderExhausted(q)) =>
      /\ q.fit.pc = "returned" /\ q.fit.result = q.res /\ q.fit.error = ""
      /\ Responded(q) /\ q.status = 200 /\ q.message = ""
      /\ q.out = q.res /\ q.out.via = "capture"
      /\ q.out.len > q.data.export.maxFileSize.n
      /\ q.contentType = "image/" \o q.data.export.type.s

\* C4 witness: all 10 quality steps and all 7 scale steps were over budget
C4_Witness ==
  \E r \in DOMAIN reqs :
    /\ LadderExhausted(reqs[r]) /\ reqs[r].fit.overBudget = 17
    /\ reqs[r].status = 200 /\ reqs[r].out.len = 3

\* stated from the body alone: no target, a url that is no absolute URL, or
\* an empty html
TargetInvalid(body) ==
  \/ body.url.t = "absent" /\ body.html.t = "absent"
  \/ body.url.t = "str" /\ body.url.s \notin AbsoluteUrls
  \/ body.html.t = "str" /\ body.html.s = ""

\* C6: a /pdf or /image request whose body fails validation is answered 400,
\* and neither getBrowser nor newPage is called for it.
C6_InvalidBodyIs400 ==
  \A r \in DOMAIN reqs :
    LET q == reqs[r] IN
    (q.route \in RenderRoutes /\ q.body # NoData /\ TargetInvalid(q.body)) =>
      /\ Responded(q) /\ q.status = 400
      /\ q.browserCalls = 0 /\ q.page = 0 /\ pages = <<>>

\* the messages of the steps that can fail while rendering
RenderFailures ==
  {"Browser not launched", "newPage failed", "setViewport failed", "load failed",
   "capture failed", "close failed", "encode failed", "metadata failed",
   "resize failed", "url or html is required"}

\* C7: a validated /pdf or /image request gets exactly one response; when a
\* step of its rendering failed, that response is a 400 whose error is the
\* message of the step that failed, no step was made twice and neither
\* success headers nor bytes are sent.
C7_RenderFailureIs400 ==
  \A r \in DOMAIN reqs :
    LET q == reqs[r] IN
    (q.route \in RenderRoutes /\ q.browserCalls > 0) =>
      /\ q.browserCalls = 1 /\ q.captures <= 1 /\ q.fit.metadataReads <= 1
      /\ q.page # 0 => pages[q.page].closes <= 1
      /\ q.responses = (IF Responded(q) THEN 1 ELSE 0)
      /\ Responded(q) =>
           \/ /\ q.status = 200 /\ q.message = "" /\ q.out # NoBytes
              /\ q.fit.pc \in {"off", "returned"}
           \/ /\ q.status = 400 /\ q.contentType = "application/json"
              /\ q.out = NoBytes
              /\ q.message \in RenderFailures
              /\ q.message = "newPage failed" <=> q.page = 0
              /\ q.message = "capture failed" <=> (q.captures = 1 /\ q.res = NoBytes)
              /\ q.message = "close failed" <=>
                   (q.res # NoBytes /\ pages[q.page].open /\ pages[q.page].closes = 1)
              /\ q.fit.pc = "thrown" <=> (q.fit.error # "" /\ q.message = q.fit.error)
              /\ q.message \in {"setViewport failed", "load failed"} =>
                   (q.captures = 0 /\ pages[q.page].content = "")

\* C7 witness: the resize of a scale step failed and the request was answered
\* 400 with that message
C7_Witness ==
  \E r \in DOMAIN reqs :
    /\ Responded(reqs[r]) /\ reqs[r].status = 400
    /\ reqs[r].message = "resize failed" /\ reqs[r].fit.scaleAttempts = 3

\* C8: with API_KEY configured, a request that is not for /health and has no
\* or another X-API-Key is answered 401 and reaches no handler; GET /health
\* is answered 200 whatever the header; with no API_KEY nothing is answered 401.
C8_ApiKeyGate ==
  \A r \in DOMAIN reqs :
    LET q == reqs[r] IN
    q.pc # "idle" =>
      /\ (apiKey # "" /\ q.route # "GET /health" /\ q.key # apiKey) =>
           /\ Responded(q) /\ q.status = 401
           /\ q.body = NoData /\ q.browserCalls = 0 /\ q.page = 0 /\ q.captures = 0
      /\ q.route = "GET /health" => (Responded(q) /\ q.status = 200)
      /\ apiKey = "" => q.status # 401

\* C8 witness: a render request with a wrong key is answered 401
C8_Witness ==
  \E r \in DOMAIN reqs :
    /\ apiKey = "secret" /\ reqs[r].route = "POST /image" /\ reqs[r].key = "wrong"
    /\ reqs[r].status = 401

\* C9: concurrent /image requests each use a page of their own and a fitter
\* state of their own, and what a request captures, re-encodes and is answered
\* with depicts its own target.
C9_NoCrossRequestMixing ==
  \A r \in DOMAIN reqs :
    LET q == reqs[r] IN
    /\ \A r2 \in DOMAIN reqs : (r2 # r /\ q.page # 0) => reqs[r2].page # q.page
    /\ q.res # NoBytes => q.res.src = Target(q)
    /\ q.fit.pc # "off" => q.fit.image = q.res
    /\ q.fit.result # NoBytes => q.fit.result.src = Target(q)
    /\ q.status = 200 => (q.out.src = Target(q) /\ q.out.src = Marker(r))

\* C9 witness: request 1 was answered with a rescaled image while request 2
\* is in its own scale loop
C9_Witness ==
  /\ DOMAIN reqs = Requests
  /\ reqs[1].status = 200 /\ reqs[1].out.via = "scale"
  /\ reqs[2].pc = "compress" /\ reqs[2].fit.scaleAttempts > 0

(***************************************************************************)
(* Claims on browser.ts (SpecBrowser) and on startup (Spec).               *)
(***************************************************************************)
\* C14: across any launchBrowser calls, overlapping ones included, the browser
\* is launched at most once, connected at most once and the handle assigned
\* at most once; a call made when the handle is set launches nothing and
\* changes nothing.
C14_LaunchedAtMostOnce ==
  /\ [](launch.launches <= 1 /\ launch.connects <= 1 /\ launch.assigns <= 1)
  /\ [][\A c \in Callers :
          (launch.pc[c] = "idle" /\ launch'.pc[c] # "idle" /\ browser # "null") =>
            /\ launch'.pc[c] = "done" /\ browser' = browser
            /\ launch'.launches = launch.launches
            /\ launch'.connects = launch.connects]_vars

\* C15: getBrowser throws 'Browser not launched' exactly when the handle is
\* unset and otherwise returns the handle; every request that called it got
\* the one handle the process holds; and once assigned the handle is never
\* reassigned or cleared: only the connect of startup writes it.
C15_HandleStableOnceAssigned ==
  /\ [](/\ getBrowser("null").throws
        /\ getBrowser("null").message = "Browser not launched"
        /\ browser # "null" =>
             (~getBrowser(browser).throws /\ getBrowser(browser).ret = browser)
        /\ \A r \in DOMAIN reqs :
             reqs[r].browserCalls > 0 =>
               /\ browser # "null"
               /\ reqs[r].handle = browser
               /\ reqs[r].message # "Browser not launched")
  /\ [][browser # "null" => browser' = browser]_vars
  /\ [][browser' # browser => (runPc = "connecting" /\ runPc' = "serving")]_vars

\* C15 witness: a request's handler holds the handle getBrowser returned and
\* waits for its page
C15_Witness ==
  \E r \in DOMAIN reqs :
    /\ reqs[r].pc = "newPage" /\ reqs[r].browserCalls = 1
    /\ reqs[r].handle = "browser" /\ browser = "browser"

\* a request inside a render with neither url nor html, as the load sees it
NoTargetRender(route) ==
  [IdleRequest EXCEPT !.pc = "newPage", !.route = route, !.handle = "browser",
                      !.page = 1, !.browserCalls = 1]

\* C16: in both renders a request with url (html present or not) is loaded by
\* goto with the url and its html is never injected; a request with html only
\* is loaded by setContent with the html; with neither the render fails with
\* an error and no capture is invoked.
C16_UrlTakesPrecedence ==
  /\ \A r \in DOMAIN reqs :
       LET q == reqs[r] IN
       (q.route \in RenderRoutes /\ q.browserCalls > 0) =>
         /\ q.load = "goto" <=> (q.pc # "newPage" /\ Truthy(q.data.url)
                                  /\ q.message \notin {"newPage failed", "setViewport failed"}
                                  /\ q.pc # "setViewport")
         /\ q.load = "setContent" => (~Truthy(q.data.url) /\ Truthy(q.data.html))
         /\ (q.page # 0 /\ Truthy(q.data.url)) =>
              pages[q.page].content \in {"", q.data.url.s}
         /\ (q.page # 0 /\ ~Truthy(q.data.url)) =>
              pages[q.page].content \in {"", q.data.html.s}
         /\ q.captures > 0 => (q.load # "" /\ pages[q.page].content # "")
         /\ q.res # NoBytes =>
              q.res.src = (IF Truthy(q.data.url) THEN q.data.url.s ELSE q.data.html.s)
  /\ \A route \in RenderRoutes :
       LET q == LoadCall(NoTargetRender(route)) IN
       /\ q.pc = "responded" /\ q.status = 400
       /\ q.message = "url or html is required"
       /\ q.load = "" /\ q.captures = 0

\* C16 witness: a /pdf request that carries url and html was navigated to the
\* url and captured
C16_Witness ==
  \E r \in DOMAIN reqs :
    /\ reqs[r].route = "POST /pdf" /\ reqs[r].status = 200
    /\ Truthy(reqs[r].data.url) /\ Truthy(reqs[r].data.html)
    /\ reqs[r].load = "goto" /\ reqs[r].out.src = reqs[r].data.url.s
    /\ pages[reqs[r].page].content = "https://a.example"

\* C17: for a validated image request that carries a clip rectangle,
\* page.screenshot is never called with both that clip and fullPage enabled,
\* fullPage left at its default of true included.
C17_ClipOverridesFullPage ==
  \A r \in DOMAIN reqs :
    LET q == reqs[r] IN
    (q.route = "POST /image" /\ q.shot.called /\ q.data.export.clip.t = "obj") =>
      /\ q.shot.clip = q.data.export.clip
      /\ q.shot.fullPage # JBool(TRUE)

\* C18: requests are accepted only once launchBrowser has completed, so no
\* handler calls getBrowser while the handle is unset; when the launch or the
\* connect fails at startup, the server never serves a request.
C18_ServeOnlyAfterLaunch ==
  /\ [](/\ runPc = "serving" => browser # "null"
        /\ \A r \in DOMAIN reqs :
             /\ reqs[r].pc # "idle" => (runPc = "serving" /\ browser # "null")
             /\ reqs[r].browserCalls > 0 => reqs[r].handle # "null"
             /\ reqs[r].message # "Browser not launched"
        /\ runPc = "crashed" =>
             (browser = "null" /\ \A r \in DOMAIN reqs : reqs[r] = IdleRequest))
  /\ [][runPc = "crashed" => runPc' = "crashed"]_vars
  /\ [][(runPc # "serving" /\ runPc' = "serving") =>
          (runPc = "connecting" /\ browser' # "null")]_vars

\* C18 witness: the server serves after the connect and a handler that got
\* the handle is capturing
C18_Witness ==
  /\ runPc = "serving" /\ browser # "null"
  /\ \E r \in DOMAIN reqs : reqs[r].pc = "capture" /\ reqs[r].handle = browser

====
